---- MODULE Spec2Model ----
(***************************************************************************)
(* Progressive growing of the Generator and the Discriminator              *)
(* (src/networks.py) and of the layers they are built from (src/layers.py).*)
(*                                                                         *)
(* One behaviour follows one network object `self`, of class Generator or  *)
(* Discriminator: its attributes current_stage, stages, size, model and    *)
(* module_names, and what the last call made on it returned or raised      *)
(* (ret).  A call that raises is a step too: the caller catches the        *)
(* exception and the object lives on with whatever the call had assigned   *)
(* before it raised.  frame is the call in progress, if any: None in the   *)
(* specification Spec, whose steps are whole calls.                        *)
(*                                                                         *)
(* A module object is a record; `id` is its identity (two records with the *)
(* same id are the same Python object), `w` stands for all its parameter   *)
(* tensors (weight, bias and the equalized scale), drawn at construction   *)
(* because the initialisation is random.  The registry (nn.Sequential) is  *)
(* the ordered sequence of its named children.                             *)
(***************************************************************************)
EXTENDS Integers, Sequences, FiniteSets, TLC

VARIABLES cls, size, stages, current_stage, model, module_names, next_id, ret, frame

vars == <<cls, size, stages, current_stage, model, module_names, next_id, ret, frame>>

\* ------------------------------------------------------------------ bounds
\* target sizes are 4 * 2^e for e in 0..MaxExp
MaxExp == 2
\* a freshly initialised parameter takes a value in 1..MaxW
MaxW == 2
\* alpha is counted in steps of 1/AlphaDen
AlphaDen == 2
\* update_alpha is called with deltas of one step and of MaxDelta steps,
\* up and down, and with 0
MaxDelta == 3
\* the values of an input tensor are 1..MaxV
MaxV == 2
\* the values of a tensor are counted modulo ValMod
ValMod == 5
\* grow_network is called at most MaxOverrun times past the last stage
MaxOverrun == 1
\* layer calls: batch sizes 1..MaxN, target sizes 4 * 2^0 .. 4 * 2^MaxSizeExp
MaxN == 8
MaxSizeExp == 6

\* ------------------------------------------------------------------ program constants
nc == 3
nz == 512
NfNumerator == 8192
NfCap == 512
group_size == 4

Min(a, b) == IF a < b THEN a ELSE b
Max(a, b) == IF a > b THEN a ELSE b

RECURSIVE Pow2(_)
Pow2(n) == IF n <= 0 THEN 1 ELSE 2 * Pow2(n - 1)

\* floor(log2(q)) for q >= 1
RECURSIVE Log2Floor(_)
Log2Floor(q) == IF q < 2 THEN 0 ELSE 1 + Log2Floor(q \div 2)

Sizes == {4 * Pow2(e) : e \in 0..MaxExp}
ParamVals == 1..MaxW
Deltas == {0 - MaxDelta, 0 - 1, 0, 1, MaxDelta}

\* self.stages = int(math.log2(self.size/4)) + 1
\* (NumStages_ceil: one more than size/4 under the logarithm)
NumStages_ceil(sz) == Log2Floor(sz \div 4 + 1) + 1
NumStages(sz) == Log2Floor(sz \div 4) + 1

\* self.nf = lambda stage: min(int(8192 / (2.0 ** stage)), 512)
nf(stage) ==
    IF stage < 0 THEN Min(NfNumerator * Pow2(0 - stage), NfCap)
    ELSE Min(NfNumerator \div Pow2(stage), NfCap)

\* 'stage_{}'.format(k)
StageName(k) == "stage_" \o ToString(k)

\* ------------------------------------------------------------------ module objects
\* a module with parameters w, mapping cin channels to cout channels
Module(kind, id, w, cin, cout) ==
    [kind |-> kind, id |-> id, w |-> w, cin |-> cin, cout |-> cout,
     alpha |-> 0, layer1 |-> <<>>, layer2 |-> <<>>]

\* Upsample() and nn.AvgPool2d(kernel_size=2): no parameters
Resample(kind, id) == Module(kind, id, 0, 0, 0)

\* ConcatTable(layer1, layer2)
ConcatTable(id, layer1, layer2) ==
    [kind |-> "ConcatTable", id |-> id, w |-> 0, cin |-> 0, cout |-> 0,
     alpha |-> 0, layer1 |-> layer1, layer2 |-> layer2]

\* Fadein(alpha=0.)  (Fadein_full: constructed with alpha = 1)
Fadein_full(id) == [Module("Fadein", id, 0, 0, 0) EXCEPT !.alpha = AlphaDen]
Fadein(id) == [Module("Fadein", id, 0, 0, 0) EXCEPT !.alpha = 0]

\* Fadein.update_alpha: alpha + delta, then max(0, min(alpha, 1.0))
\* (update_alpha_nomin: the same without the min)
update_alpha_nomin(alpha, delta) == Max(0, alpha + delta)
update_alpha(alpha, delta) == Max(0, Min(alpha + delta, AlphaDen))

\* ------------------------------------------------------------------ nn.Sequential
Names(seq) == [i \in 1..Len(seq) |-> seq[i].name]
HasChild(seq, name) == \E i \in 1..Len(seq) : seq[i].name = name
Child(seq, name) == seq[CHOOSE i \in 1..Len(seq) : seq[i].name = name].m

\* add_module: a new name is appended, an existing name keeps its place and
\* gets the new module
add_module(seq, name, m) ==
    IF HasChild(seq, name)
    THEN [i \in 1..Len(seq) |-> IF seq[i].name = name THEN [name |-> name, m |-> m] ELSE seq[i]]
    ELSE Append(seq, [name |-> name, m |-> m])

\* new_module[-1].load_state_dict(m.state_dict()): the last child takes m's
\* parameter values (its own, when it is m)
\* (load_state_dict_reinit: the last child takes other values instead)
load_state_dict_reinit(seq, m) == [seq EXCEPT ![Len(seq)].m.w = (m.w % MaxW) + 1]
load_state_dict(seq, m) == [seq EXCEPT ![Len(seq)].m.w = m.w]

RECURSIVE CopyWhere(_, _, _)
CopyWhere(seq, keep, acc) ==
    IF seq = <<>> THEN acc
    ELSE LET e == Head(seq) IN
         CopyWhere(Tail(seq), keep,
                   IF e.name \in keep
                   THEN load_state_dict(add_module(acc, e.name, e.m), e.m)
                   ELSE acc)

\* deepcopy_layers(module, layer_name): the children named in layer_name.
\* Called with a list, `name in layer_name` is membership; called with a str
\* it is a substring test, which among the names of a branch
\* (new_block, new_to_rgb, new_from_rgb) is equality.
\* (deepcopy_layers_all: the same without the test of the name)
deepcopy_layers_all(seq, layer_name) == CopyWhere(seq, {seq[i].name : i \in 1..Len(seq)}, <<>>)
deepcopy_layers(seq, layer_name) == CopyWhere(seq, layer_name, <<>>)

\* deepcopy_exclude(module, exclude_name): the children not named
\* (deepcopy_exclude_none: the same without the test of the name)
deepcopy_exclude_none(seq, exclude_name) ==
    CopyWhere(seq, {seq[i].name : i \in 1..Len(seq)}, <<>>)
deepcopy_exclude(seq, exclude_name) ==
    CopyWhere(seq, {seq[i].name : i \in 1..Len(seq)} \ exclude_name, <<>>)

\* a module has entries in state_dict() iff it, or a module below it, has
\* parameters: Fadein, Upsample and AvgPool2d have none
RECURSIVE HasParams(_)
HasParams(m) ==
    \/ m.w # 0
    \/ \E i \in 1..Len(m.layer1) : HasParams(m.layer1[i].m)
    \/ \E i \in 1..Len(m.layer2) : HasParams(m.layer2[i].m)

\* get_module_names(model): first components of the state_dict keys, in order
get_module_names(seq) == SelectSeq(Names(seq), LAMBDA n : HasParams(Child(seq, n)))

\* ------------------------------------------------------------------ outcomes
Ok(cs, mdl, nid) == [exc |-> "none", current_stage |-> cs, model |-> mdl, next_id |-> nid]
Raise(exc, cs) == [exc |-> exc, current_stage |-> cs, model |-> model, next_id |-> next_id]

\* ------------------------------------------------------------------ Generator
first_block(id, w, stage) == Module("first_block", id, w, nz, nf(stage))
to_rgb_block(id, w, ndim) == Module("to_rgb", id, w, ndim, nc)
G_intermediate_block(id, w, stage) == Module("G_intermediate", id, w, nf(stage - 1), nf(stage))

get_init_G(w1, w2) ==
    add_module(add_module(<<>>, StageName(current_stage), first_block(1, w1, current_stage)),
               "to_rgb", to_rgb_block(2, w2, nf(current_stage)))

\* Generator.grow_network with the random initialisations w1 (new_block) and
\* w2 (new_to_rgb)
G_grow(w1, w2) ==
    LET cs == current_stage + 1 IN
    IF ~(cs <= stages) THEN Raise("AssertionError", cs)
    ELSE
    LET new_model == deepcopy_exclude(model, {"to_rgb"})
        old_to_rgb == deepcopy_layers(model, {"to_rgb"})
    IN
    IF Len(old_to_rgb) = 0 THEN Raise("IndexError", cs)
    ELSE IF ~(cs > 1 /\ cs <= stages) THEN Raise("AssertionError", cs)
    ELSE
    LET old_block ==
            add_module(add_module(<<>>, "old_upsample", Resample("Upsample", next_id)),
                       "old_to_rgb", old_to_rgb[Len(old_to_rgb)].m)
        new_block ==
            add_module(add_module(<<>>, "new_block", G_intermediate_block(next_id + 1, w1, cs)),
                       "new_to_rgb", to_rgb_block(next_id + 2, w2, nf(cs)))
        grown ==
            add_module(add_module(new_model, "concat_block",
                                  ConcatTable(next_id + 3, old_block, new_block)),
                       "fadein", Fadein(next_id + 4))
    IN Ok(cs, grown, next_id + 5)

\* Generator.flush_network, from line 108 on: the registry has a concat_block
G_flush_rest ==
    LET layer2 == Child(model, "concat_block").layer2
        new_block == deepcopy_layers(layer2, {"new_block"})
        new_to_rgb == deepcopy_layers(layer2, {"new_to_rgb"})
        new_model == deepcopy_exclude(model, {"concat_block", "fadein"})
    IN
    IF Len(new_block) = 0 \/ Len(new_to_rgb) = 0 THEN Raise("IndexError", current_stage)
    ELSE Ok(current_stage,
            add_module(add_module(new_model, StageName(current_stage),
                                  new_block[Len(new_block)].m),
                       "to_rgb", new_to_rgb[Len(new_to_rgb)].m),
            next_id)

\* Generator.flush_network: self.model.concat_block raises AttributeError
\* when the registry has no child of that name
G_flush_unguarded ==
    IF ~HasChild(model, "concat_block") THEN Ok(current_stage, model, next_id)
    ELSE G_flush_rest
G_flush ==
    IF ~HasChild(model, "concat_block") THEN Raise("AttributeError", current_stage)
    ELSE G_flush_rest

\* ------------------------------------------------------------------ Discriminator
last_block(id, w) == Module("last_block", id, w, nf(8 - stages), 1)
from_rgb_block(id, w, ndim) == Module("from_rgb", id, w, nc, ndim)
D_intermediate_block(id, w, stage) == Module("D_intermediate", id, w, nf(8 - stage), nf(7 - stage))

get_init_D(w1, w2) ==
    add_module(add_module(<<>>, "from_rgb", from_rgb_block(1, w1, nf(8 - current_stage))),
               StageName(current_stage), last_block(2, w2))

RECURSIVE AddAllBut(_, _, _)
\* for name, module in self.model.named_children(): if name not excluded, add
AddAllBut(seq, excluded, acc) ==
    IF seq = <<>> THEN acc
    ELSE LET e == Head(seq) IN
         AddAllBut(Tail(seq), excluded,
                   IF e.name \notin excluded
                   THEN load_state_dict(add_module(acc, e.name, e.m), e.m)
                   ELSE acc)

\* Discriminator.grow_network with the random initialisations w1 (new_block)
\* and w2 (new_from_rgb)
D_grow(w1, w2) ==
    LET cs == current_stage - 1 IN
    IF ~(cs >= 1) THEN Raise("AssertionError", cs)
    ELSE
    LET old_from_rgb == deepcopy_layers(model, {"from_rgb"}) IN
    IF Len(old_from_rgb) = 0 THEN Raise("IndexError", cs)
    ELSE IF ~(cs >= 1 /\ cs < stages) THEN Raise("AssertionError", cs)
    ELSE
    LET old_block ==
            add_module(add_module(<<>>, "old_downsample", Resample("AvgPool2d", next_id)),
                       "old_from_rgb", old_from_rgb[Len(old_from_rgb)].m)
        new_block ==
            add_module(add_module(<<>>, "new_from_rgb",
                                  from_rgb_block(next_id + 2, w2, nf(8 - cs))),
                       "new_block", D_intermediate_block(next_id + 1, w1, cs))
        head ==
            add_module(add_module(<<>>, "concat_block",
                                  ConcatTable(next_id + 3, old_block, new_block)),
                       "fadein", Fadein(next_id + 4))
    IN Ok(cs, AddAllBut(model, {"from_rgb"}, head), next_id + 5)

\* Discriminator.flush_network, from line 196 on: the registry has a concat_block
D_flush_rest ==
    LET layer2 == Child(model, "concat_block").layer2
        new_block == deepcopy_layers(layer2, {"new_block"})
        new_from_rgb == deepcopy_layers(layer2, {"new_from_rgb"})
    IN
    IF Len(new_block) = 0 \/ Len(new_from_rgb) = 0 THEN Raise("IndexError", current_stage)
    ELSE
    LET head ==
            add_module(add_module(<<>>, "from_rgb", new_from_rgb[Len(new_from_rgb)].m),
                       StageName(current_stage), new_block[Len(new_block)].m)
    IN Ok(current_stage, AddAllBut(model, {"concat_block", "fadein"}, head), next_id)

\* Discriminator.flush_network: self.model.concat_block raises AttributeError
\* when the registry has no child of that name
\* (D_flush_at_one: a flush that insists on alpha = 1)
D_flush_at_one ==
    IF ~HasChild(model, "concat_block") THEN Raise("AttributeError", current_stage)
    ELSE IF HasChild(model, "fadein") /\ Child(model, "fadein").alpha # AlphaDen
         THEN Raise("AssertionError", current_stage)
    ELSE D_flush_rest
D_flush ==
    IF ~HasChild(model, "concat_block") THEN Raise("AttributeError", current_stage)
    ELSE D_flush_rest

\* ------------------------------------------------------------------ forward
\* A tensor is its shape (rank; N, C, H = W) and v, which stands for its
\* values; a raised exception is a value too, and passes through every layer
\* after the one that raised it.
\* The values are the rational v / den.
Tensor(rank, n, c, h, v) ==
    [kind |-> "tensor", rank |-> rank, N |-> n, C |-> c, H |-> h, v |-> v, den |-> 1]
Exc(type) == [kind |-> "exc", type |-> type]
\* the list [x0, x1] that ConcatTable.forward returns
List(x0, x1) == [kind |-> "list", x0 |-> x0, x1 |-> x1]
None == [kind |-> "None"]

\* the values of a convolution's output: a function of the input values and
\* of the parameters
Mix(v, w) == (2 * v + w) % ValMod

Abs(a) == IF a < 0 THEN 0 - a ELSE a

RECURSIVE GCD(_, _)
GCD(a, b) == IF b = 0 THEN a ELSE GCD(b, a % b)

\* EqualizedConv2d(cin, cout, kernel_size, 1, padding) [+ LeakyReLU, PixelwiseNorm]
Conv(x, cin, cout, k, pad, w) ==
    IF x.kind # "tensor" THEN x
    ELSE IF x.rank # 4 \/ x.C # cin \/ x.H + 2 * pad - k + 1 < 1 THEN Exc("RuntimeError")
    ELSE Tensor(4, x.N, cout, x.H + 2 * pad - k + 1, Mix(x.v + x.den - 1, w))

\* Upsample.forward: F.interpolate(x, scale_factor=2, mode='nearest')
Upsample(x) == IF x.kind # "tensor" THEN x ELSE [x EXCEPT !.H = 2 * @]

\* nn.AvgPool2d(kernel_size=2)
AvgPool2d(x) ==
    IF x.kind # "tensor" THEN x
    ELSE IF x.H < 2 THEN Exc("RuntimeError")
    ELSE [x EXCEPT !.H = @ \div 2, !.v = Mix(x.v + x.den - 1, 0), !.den = 1]

\* MinibatchStddev.forward: M = x.size(0) / G is a float, whatever N and G
\* are, and torch.reshape takes no float in a shape
MinibatchStddev(x) ==
    IF x.kind # "tensor" THEN x
    ELSE LET G == Min(group_size, x.N)
             M == [float |-> TRUE, floor |-> x.N \div G]
         IN IF M.float THEN Exc("TypeError")
            ELSE [x EXCEPT !.C = @ + 1]

\* EqualizedLinear(cin, 1) on x.view(N, -1)
Linear(x, cin, w) ==
    IF x.kind # "tensor" THEN x
    ELSE IF x.C * x.H * x.H # cin THEN Exc("RuntimeError")
    ELSE Tensor(2, x.N, 1, 1, Mix(x.v + x.den - 1, w))

\* Fadein.forward: x[0].mul(1.0-self.alpha) + x[1].mul(self.alpha), with
\* self.alpha = alpha / AlphaDen, as a fraction in lowest terms
\* (Fadein_forward_swapped: the two factors exchanged)
Blend(x0, x1, alpha) ==
    LET num == x0.v * x1.den * (AlphaDen - alpha) + x1.v * x0.den * alpha
        den == x0.den * x1.den * AlphaDen
        g == GCD(Abs(num), den)
    IN [x0 EXCEPT !.v = num \div g, !.den = den \div g]
Fadein_forward_swapped(x, alpha) ==
    IF x.kind = "exc" THEN x
    ELSE IF x.kind # "list" THEN Exc("IndexError")
    ELSE IF <<x.x0.N, x.x0.C, x.x0.H>> # <<x.x1.N, x.x1.C, x.x1.H>> THEN Exc("RuntimeError")
    ELSE Blend(x.x0, x.x1, AlphaDen - alpha)
Fadein_forward(x, alpha) ==
    IF x.kind = "exc" THEN x
    ELSE IF x.kind # "list" THEN Exc("IndexError")
    ELSE IF <<x.x0.N, x.x0.C, x.x0.H>> # <<x.x1.N, x.x1.C, x.x1.H>> THEN Exc("RuntimeError")
    ELSE Blend(x.x0, x.x1, alpha)

RECURSIVE Sequential_forward(_, _)
RECURSIVE Module_forward(_, _)

\* the forward of one module of the registry, by the layers it was built from
Module_forward(m, x) ==
    CASE m.kind = "first_block" ->
           Conv(Conv(x, m.cin, m.cout, 4, 3, m.w), m.cout, m.cout, 3, 1, m.w)
      [] m.kind = "to_rgb" -> Conv(x, m.cin, m.cout, 1, 0, m.w)
      [] m.kind = "from_rgb" -> Conv(x, m.cin, m.cout, 1, 0, m.w)
      [] m.kind = "G_intermediate" ->
           Conv(Conv(Upsample(x), m.cin, m.cout, 3, 1, m.w), m.cout, m.cout, 3, 1, m.w)
      [] m.kind = "D_intermediate" ->
           AvgPool2d(Conv(Conv(x, m.cin, m.cin, 3, 1, m.w), m.cin, m.cout, 3, 1, m.w))
      [] m.kind = "last_block" ->
           Linear(Conv(Conv(MinibatchStddev(x), m.cin + 1, m.cin, 3, 1, m.w),
                       m.cin, m.cin, 4, 0, m.w), m.cin, m.w)
      [] m.kind = "Upsample" -> Upsample(x)
      [] m.kind = "AvgPool2d" -> AvgPool2d(x)
      [] m.kind = "ConcatTable" ->
           LET x0 == Sequential_forward(m.layer1, x)
               x1 == Sequential_forward(m.layer2, x)
           IN IF x.kind # "tensor" THEN x
              ELSE IF x0.kind = "exc" THEN x0
              ELSE IF x1.kind = "exc" THEN x1
              ELSE List(x0, x1)
      [] m.kind = "Fadein" -> Fadein_forward(x, m.alpha)

\* nn.Sequential.forward: the children in registry order
Sequential_forward(seq, x) ==
    IF seq = <<>> THEN x
    ELSE Sequential_forward(Tail(seq), Module_forward(Head(seq).m, x))

\* Generator.forward: `len(x.size() == 2)` takes the len of a bool (a
\* torch.Size never equals an int), which raises TypeError for every input
\* that passed the assert
G_forward(mdl, x) ==
    IF ~(x.rank = 2 \/ x.rank = 4) THEN Exc("AssertionError")
    ELSE LET size_eq_2 == FALSE
             len_is_defined == FALSE
         IN IF ~len_is_defined THEN Exc("TypeError")
            ELSE Sequential_forward(mdl, IF size_eq_2 THEN [x EXCEPT !.rank = 4, !.H = 1] ELSE x)

\* Discriminator.forward
D_forward(mdl, x) ==
    IF ~(x.rank = 4) THEN Exc("AssertionError")
    ELSE Sequential_forward(mdl, x)

\* the inputs forward is called with: latent vectors (N, nz) and (N, nz, 1, 1),
\* images (N, nc, H, H), and tensors of rank 3
Inputs ==
    {Tensor(r, 1, nz, 1, v) : r \in 2..4, v \in 1..MaxV}
    \cup {Tensor(r, 1, nc, h, v) : r \in 3..4, h \in Sizes, v \in 1..MaxV}

\* ------------------------------------------------------------------ actions
\* the last call: its name, its argument delta (update_alpha), the exception
\* it raised and the value it returned (None but for forward)
Returned(op, exc, delta, val) == [op |-> op, exc |-> exc, delta |-> delta, val |-> val]

\* what a grow_network or flush_network call leaves behind
Apply(op, r) ==
    /\ current_stage' = r.current_stage
    /\ model' = r.model
    /\ module_names' = IF r.exc = "none" THEN get_module_names(r.model) ELSE module_names
    /\ next_id' = r.next_id
    /\ ret' = Returned(op, r.exc, 0, None)
    /\ UNCHANGED <<cls, size, stages, frame>>

\* self.current_stage = 1 (Generator), = self.stages (Discriminator)
init_stage(c, st) == IF c = "Generator" THEN 1 ELSE st

\* the object after __init__
Constructed ==
    /\ cls \in {"Generator", "Discriminator"}
    /\ size \in Sizes
    /\ stages = NumStages(size)
    /\ current_stage = init_stage(cls, stages)
    /\ \E w1, w2 \in ParamVals :
          model = IF cls = "Generator" THEN get_init_G(w1, w2)
                  ELSE get_init_D(w1, w2)
    /\ module_names = get_module_names(model)
    /\ next_id = 3
    /\ ret = Returned("__init__", "none", 0, None)

Init == Constructed /\ frame = None

Generator_grow_network ==
    /\ cls = "Generator"
    /\ current_stage < stages + MaxOverrun
    /\ \E w1, w2 \in ParamVals : Apply("grow_network", G_grow(w1, w2))

Generator_flush_network ==
    /\ cls = "Generator"
    /\ Apply("flush_network", G_flush)

Discriminator_grow_network ==
    /\ cls = "Discriminator"
    /\ current_stage > 1 - MaxOverrun
    /\ \E w1, w2 \in ParamVals : Apply("grow_network", D_grow(w1, w2))

Discriminator_flush_network ==
    /\ cls = "Discriminator"
    /\ Apply("flush_network", D_flush)

\* the training loop's self.model.fadein.update_alpha(delta)
Fadein_update_alpha ==
    \E delta \in Deltas :
       /\ IF ~HasChild(model, "fadein")
          THEN /\ ret' = Returned("update_alpha", "AttributeError", delta, None)
               /\ model' = model
          ELSE /\ ret' = Returned("update_alpha", "none", delta, None)
               /\ model' = [i \in 1..Len(model) |->
                              IF model[i].name = "fadein"
                              THEN [model[i] EXCEPT !.m.alpha = update_alpha(@, delta)]
                              ELSE model[i]]
       /\ UNCHANGED <<cls, size, stages, current_stage, module_names, next_id, frame>>

\* the value the call returned, or the exception it raised
Forward(op, y) ==
    /\ ret' = IF y.kind = "exc" THEN Returned(op, y.type, 0, None)
              ELSE Returned(op, "none", 0, y)
    /\ UNCHANGED <<cls, size, stages, current_stage, model, module_names, next_id, frame>>

Generator_forward ==
    /\ cls = "Generator"
    /\ \E x \in Inputs : Forward("forward", G_forward(model, x))

Discriminator_forward ==
    /\ cls = "Discriminator"
    /\ \E x \in Inputs : Forward("forward", D_forward(model, x))

Next ==
    \/ Generator_grow_network
    \/ Generator_flush_network
    \/ Discriminator_grow_network
    \/ Discriminator_flush_network
    \/ Fadein_update_alpha
    \/ Generator_forward
    \/ Discriminator_forward

Spec == Init /\ [][Next]_vars

\* ------------------------------------------- grow and flush, line by line
\* grow_network and flush_network as the statements they are made of, with
\* forward free to run between any two of them.  frame is the call in
\* progress: the statement it has reached (pc), the registry and the stage it
\* began with (old, old_stage) and the outcome r of its assert and of the
\* construction of new_model, which touch nothing but locals.
Frame(op, pc, r) ==
    [kind |-> "frame", op |-> op, pc |-> pc, old |-> model, old_stage |-> current_stage, r |-> r]

\* self.model = None: the attribute holds no registry
NoModel == <<[name |-> "None", m |-> Module("None", 0, 0, 0, 0)]>>

grow_network(w1, w2) == IF cls = "Generator" THEN G_grow(w1, w2) ELSE D_grow(w1, w2)
flush_network == IF cls = "Generator" THEN G_flush ELSE D_flush

StepsInit == Constructed /\ frame = None

\* self.current_stage += 1 (Generator), -= 1 (Discriminator)
grow_network_stage ==
    /\ frame = None
    /\ IF cls = "Generator" THEN current_stage < stages + MaxOverrun
       ELSE current_stage > 1 - MaxOverrun
    /\ \E w1, w2 \in ParamVals :
          LET r == grow_network(w1, w2)
          IN /\ frame' = Frame("grow_network", "build", r)
             /\ current_stage' = r.current_stage
    /\ UNCHANGED <<cls, size, stages, model, module_names, next_id, ret>>

\* flush_network is entered
flush_network_enter ==
    /\ frame = None
    /\ frame' = Frame("flush_network", "build", flush_network)
    /\ UNCHANGED <<cls, size, stages, current_stage, model, module_names, next_id, ret>>

\* the assert and the construction of new_model: the call ends here when
\* one of them raises
build_new_model ==
    /\ frame.kind = "frame" /\ frame.pc = "build"
    /\ IF frame.r.exc # "none"
       THEN /\ ret' = Returned(frame.op, frame.r.exc, 0, None)
            /\ frame' = None
       ELSE /\ ret' = ret
            /\ frame' = [frame EXCEPT !.pc = "None"]
    /\ UNCHANGED <<cls, size, stages, current_stage, model, module_names, next_id>>

\* self.model = None
model_assign_None ==
    /\ frame.kind = "frame" /\ frame.pc = "None"
    /\ model' = NoModel
    /\ frame' = [frame EXCEPT !.pc = "new_model"]
    /\ UNCHANGED <<cls, size, stages, current_stage, module_names, next_id, ret>>

\* self.model = new_model
model_assign_new_model ==
    /\ frame.kind = "frame" /\ frame.pc = "new_model"
    /\ model' = frame.r.model
    /\ next_id' = frame.r.next_id
    /\ frame' = [frame EXCEPT !.pc = "module_names"]
    /\ UNCHANGED <<cls, size, stages, current_stage, module_names, ret>>

\* self.module_names = get_module_names(self.model), and the call returns
module_names_assign ==
    /\ frame.kind = "frame" /\ frame.pc = "module_names"
    /\ module_names' = get_module_names(model)
    /\ ret' = Returned(frame.op, "none", 0, None)
    /\ frame' = None
    /\ UNCHANGED <<cls, size, stages, current_stage, model, next_id>>

\* forward between two statements: self.model(x) with self.model None raises
\* TypeError
interleaved_forward ==
    /\ \E x \in Inputs :
          LET y == IF model = NoModel THEN Exc("TypeError")
                   ELSE IF cls = "Generator" THEN G_forward(model, x)
                   ELSE D_forward(model, x)
          IN ret' = IF y.kind = "exc" THEN Returned("forward", y.type, 0, None)
                    ELSE Returned("forward", "none", 0, y)
    /\ UNCHANGED <<cls, size, stages, current_stage, model, module_names, next_id, frame>>

StepsNext ==
    \/ grow_network_stage
    \/ flush_network_enter
    \/ build_new_model
    \/ model_assign_None
    \/ model_assign_new_model
    \/ module_names_assign
    \/ interleaved_forward

SpecSteps == StepsInit /\ [][StepsNext]_vars

\* ------------------------------------------------------- single layer calls
\* A call of one function on arguments of its own: frame holds the receiver,
\* the argument and, once the call has returned, its result.
Call(op, self, x) == [op |-> op, self |-> self, x |-> x, y |-> None, done |-> FALSE]

\* Fadein.forward on the pair of two branch outputs of one shape
FadeinCalls ==
    {Call("Fadein.forward", [Fadein(0) EXCEPT !.alpha = a],
          List(Tensor(4, 1, nc, 4, o), Tensor(4, 1, nc, 4, n))) :
        a \in 0..AlphaDen, o \in (0 - MaxV)..MaxV, n \in (0 - MaxV)..MaxV}

\* MinibatchStddev.forward on a batch of N samples
StddevCalls ==
    {Call("MinibatchStddev.forward", Module("MinibatchStddev", 0, 0, 0, 0),
          Tensor(4, n, c, 4, v)) : n \in 1..MaxN, c \in {nc, nf(1)}, v \in 1..MaxV}

\* Generator(size) and Discriminator(size) for the power-of-two sizes
InitCalls ==
    {Call("__init__", [kind |-> c], [kind |-> "int", v |-> 4 * Pow2(e)]) :
        c \in {"Generator", "Discriminator"}, e \in 0..MaxSizeExp}

\* forward of the constructed network
ForwardCalls == {Call("forward", [kind |-> cls], x) : x \in Inputs}

LayersInit ==
    /\ Constructed
    /\ \/ frame \in FadeinCalls
       \/ frame \in StddevCalls
       \/ frame \in InitCalls
       \/ frame \in ForwardCalls

Return(y) ==
    /\ frame.done = FALSE
    /\ frame' = [frame EXCEPT !.y = y, !.done = TRUE]
    /\ UNCHANGED <<cls, size, stages, current_stage, model, module_names, next_id, ret>>

Fadein_forward_call ==
    /\ frame.op = "Fadein.forward"
    /\ Return(Fadein_forward(frame.x, frame.self.alpha))

MinibatchStddev_forward_call ==
    /\ frame.op = "MinibatchStddev.forward"
    /\ Return(MinibatchStddev(frame.x))

Network_init_call ==
    /\ frame.op = "__init__"
    /\ Return([kind |-> "object", stages |-> NumStages(frame.x.v),
               current_stage |-> init_stage(frame.self.kind, NumStages(frame.x.v))])

Generator_forward_call ==
    /\ frame.op = "forward"
    /\ cls = "Generator"
    /\ Return(G_forward(model, frame.x))

Discriminator_forward_call ==
    /\ frame.op = "forward"
    /\ cls = "Discriminator"
    /\ Return(D_forward(model, frame.x))

LayersNext ==
    \/ Fadein_forward_call
    \/ MinibatchStddev_forward_call
    \/ Network_init_call
    \/ Generator_forward_call
    \/ Discriminator_forward_call

SpecLayers == LayersInit /\ [][LayersNext]_vars

\* ------------------------------------------------------------------ properties
IsG == cls = "Generator"
\* the terminal block's name: to_rgb (Generator), from_rgb (Discriminator)
Terminal == IF IsG THEN "to_rgb" ELSE "from_rgb"
OldTerminal == IF IsG THEN "old_to_rgb" ELSE "old_from_rgb"
NewTerminal == IF IsG THEN "new_to_rgb" ELSE "new_from_rgb"

Stable == HasChild(model, Terminal) /\ ~HasChild(model, "concat_block") /\ ~HasChild(model, "fadein")
Transitioning == HasChild(model, "concat_block") /\ HasChild(model, "fadein")
AtFinalStage == IF IsG THEN current_stage >= stages ELSE current_stage <= 1

\* the step is a call of op (every call leaves its name and outcome in ret)
Called(op) == ret'.op = op
Succeeded(op) == ret'.op = op /\ ret'.exc = "none"
Failed(op) == ret'.op = op /\ ret'.exc # "none"

\* [stage_a, ..., stage_b]
StageNames(a, b) == [i \in 1..(IF b >= a THEN b - a + 1 ELSE 0) |-> "stage_" \o ToString(a + i - 1)]

\* the modules with parameters found in a registry, at any depth
RECURSIVE ParamModules(_)
ParamModules(seq) ==
    UNION {(IF seq[i].m.w # 0 THEN {seq[i].m} ELSE {})
           \cup ParamModules(seq[i].m.layer1) \cup ParamModules(seq[i].m.layer2)
           : i \in 1..Len(seq)}

\* C1: in every reachable state of either network, also after calls that
\* raised, current_stage is between 1 and stages.
C1_StageInRange == current_stage >= 1 /\ current_stage <= stages

\* C2: grow_network succeeds only from a STABLE network that is not at its
\* final stage; at the final stage, or during a blend, it raises and leaves
\* the registry as it was.
C2_GrowOnlyWhenStableNotFinal ==
    [][Called("grow_network") =>
         /\ (ret'.exc = "none") <=> (Stable /\ ~AtFinalStage)
         /\ (AtFinalStage \/ Transitioning) => (ret'.exc # "none" /\ model' = model)]_vars

\* grow_network was called during a blend and raised
C2_Witness ==
    /\ ret.op = "grow_network" /\ ret.exc = "IndexError"
    /\ Transitioning

\* C3: a grow_network or flush_network call that raises leaves
\* current_stage, the registry and module_names as they were.
C3_FailedCallIsLocal ==
    [][(Failed("grow_network") \/ Failed("flush_network")) =>
         /\ current_stage' = current_stage
         /\ model' = model
         /\ module_names' = module_names]_vars

\* C4: on a STABLE network flush_network and update_alpha raise, and change
\* neither current_stage nor the registry.
C4_StableFlushAndUpdateRaise ==
    [][(Stable /\ (Called("flush_network") \/ Called("update_alpha"))) =>
         /\ ret'.exc # "none"
         /\ current_stage' = current_stage
         /\ model' = model
         /\ module_names' = module_names]_vars

\* flush_network was called on a STABLE network and raised
C4_Witness ==
    /\ ret.op = "flush_network" /\ ret.exc = "AttributeError"
    /\ Stable

\* C5: the Generator's registry names are [stage_1..stage_k, to_rgb] when
\* STABLE and [stage_1..stage_(k-1), concat_block, fadein] when
\* TRANSITIONING, with k = current_stage.
C5_GeneratorNames ==
    IsG =>
      /\ Stable => Names(model) = StageNames(1, current_stage) \o <<"to_rgb">>
      /\ Transitioning =>
           Names(model) = StageNames(1, current_stage - 1) \o <<"concat_block", "fadein">>

\* C6: the Discriminator's registry names are [from_rgb, stage_s..stage_stages]
\* when STABLE and [concat_block, fadein, stage_(s+1)..stage_stages] when
\* TRANSITIONING, with s = current_stage.
C6_DiscriminatorNames ==
    ~IsG =>
      /\ Stable => Names(model) = <<"from_rgb">> \o StageNames(current_stage, stages)
      /\ Transitioning =>
           Names(model) = <<"concat_block", "fadein">> \o StageNames(current_stage + 1, stages)

\* C7: a successful grow_network keeps every block but the terminal one under
\* its name, as the same object with the same parameters; the old branch's
\* terminal block is the former terminal block, parameters included; the only
\* newly created parameters are those of the new branch's two blocks.
C7_GrowPreservesParameters ==
    [][Succeeded("grow_network") =>
         LET concat == Child(model', "concat_block") IN
         /\ \A i \in 1..Len(model) :
               model[i].name # Terminal =>
                  /\ HasChild(model', model[i].name)
                  /\ Child(model', model[i].name) = model[i].m
         /\ HasChild(concat.layer1, OldTerminal)
         /\ Child(concat.layer1, OldTerminal) = Child(model, Terminal)
         /\ {m \in ParamModules(model') : m.id >= next_id}
               = {Child(concat.layer2, "new_block"), Child(concat.layer2, NewTerminal)}
         /\ ParamModules(model') \ ParamModules(concat.layer2) = ParamModules(model)]_vars

\* grow_network succeeded on a network that had already grown once: the
\* registry it kept holds trained stage blocks besides the new branch
C7_Witness ==
    /\ ret.op = "grow_network" /\ ret.exc = "none"
    /\ Len(model) >= 4

\* C8: a successful flush_network registers the new branch's blocks, with
\* the parameters they had, as stage_<current_stage> and as the terminal
\* block, keeps every other stage block unchanged, and leaves no old terminal
\* block, concat_block or fadein in the registry.
C8_FlushKeepsNewBranch ==
    [][Succeeded("flush_network") =>
         LET concat == Child(model, "concat_block")
             kept == {i \in 1..Len(model) : model[i].name \notin {"concat_block", "fadein"}}
         IN
         /\ HasChild(model', "stage_" \o ToString(current_stage))
         /\ Child(model', "stage_" \o ToString(current_stage)) = Child(concat.layer2, "new_block")
         /\ HasChild(model', Terminal)
         /\ Child(model', Terminal) = Child(concat.layer2, NewTerminal)
         /\ \A i \in kept :
               HasChild(model', model[i].name) /\ Child(model', model[i].name) = model[i].m
         /\ Len(model') = Cardinality(kept) + 2
         /\ ~HasChild(model', "concat_block") /\ ~HasChild(model', "fadein")
         /\ \A j \in 1..Len(model') :
               model'[j].m.id \notin {concat.layer1[i].m.id : i \in 1..Len(concat.layer1)}
                                       \cup {concat.id}]_vars

\* flush_network succeeded and the network holds a stage block from before
\* the blend besides the one it registered
C8_Witness ==
    /\ ret.op = "flush_network" /\ ret.exc = "none"
    /\ Len(model) >= 3

\* the inputs a network of this class and stage is made for
ValidInputs(stage) ==
    IF IsG THEN {x \in Inputs : x.rank \in {2, 4} /\ x.C = nz /\ x.H = 1}
    ELSE {x \in Inputs : x.rank = 4 /\ x.C = nc /\ x.H = 4 * Pow2(stages - stage)}

\* C9: right after a successful grow_network the network computes the old
\* path alone: the Generator returns the 2x upsampled pre-grow output, the
\* Discriminator returns its pre-grow output on the 2x average-pooled input.
C9_GrowKeepsOutput ==
    [][Succeeded("grow_network") =>
         \A x \in ValidInputs(current_stage') :
            LET pre == IF IsG THEN G_forward(model, x) ELSE D_forward(model, AvgPool2d(x))
                post == IF IsG THEN G_forward(model', x) ELSE D_forward(model', x)
            IN /\ pre.kind = "tensor"
               /\ post.kind = "tensor"
               /\ post = (IF IsG THEN Upsample(pre) ELSE pre)]_vars

\* alpha of the registry's fadein
Alpha(mdl) == Child(mdl, "fadein").alpha
Clamp(a) == IF a < 0 THEN 0 ELSE IF a > AlphaDen THEN AlphaDen ELSE a

\* C10: update_alpha(delta) sets alpha to clamp(alpha + delta, 0, 1) and
\* changes nothing else, so alpha stays within [0, 1].
C10_UpdateAlphaClamps ==
    /\ [](HasChild(model, "fadein") => (Alpha(model) >= 0 /\ Alpha(model) <= AlphaDen))
    /\ [][Succeeded("update_alpha") =>
            /\ Alpha(model') = Clamp(Alpha(model) + ret'.delta)
            /\ model' = [i \in 1..Len(model) |->
                           IF model[i].name = "fadein"
                           THEN [model[i] EXCEPT !.m.alpha = Alpha(model')]
                           ELSE model[i]]
            /\ UNCHANGED <<cls, size, stages, current_stage, module_names>>]_vars

\* update_alpha ran into the upper clamp
C10_Witness ==
    /\ ret.op = "update_alpha" /\ ret.exc = "none"
    /\ ret.delta > AlphaDen
    /\ Alpha(model) = AlphaDen

\* the distance between the integer n and the fraction y.v / y.den, times
\* the positive number q
Dist(n, y, q) == Abs(n * y.den - y.v) * q

\* C11: Fadein.forward on a pair (o, n) returns o*(1-alpha) + n*alpha: it is
\* o at alpha = 0 and n at alpha = 1, lies between o and n, and for o # n is
\* strictly closer to n than the blend at any smaller factor.
C11_FadeinBlends ==
    (frame.op = "Fadein.forward" /\ frame.done) =>
        LET o == frame.x.x0.v
            n == frame.x.x1.v
            a == frame.self.alpha
            y == frame.y
        IN /\ y.kind = "tensor"
           /\ y.v * AlphaDen = (o * (AlphaDen - a) + n * a) * y.den
           /\ a = 0 => y = frame.x.x0
           /\ a = AlphaDen => y = frame.x.x1
           /\ y.v >= Min(o, n) * y.den /\ y.v <= Max(o, n) * y.den
           /\ \A b \in 0..AlphaDen :
                 (b < a /\ o # n) =>
                    LET z == Fadein_forward(frame.x, b)
                    IN Dist(n, y, z.den) < Dist(n, z, y.den)

C11_Witness ==
    /\ frame.op = "Fadein.forward" /\ frame.done
    /\ frame.x.x0.v # frame.x.x1.v
    /\ frame.self.alpha > 0 /\ frame.self.alpha < AlphaDen
    /\ frame.y.den > 1

\* C12: for every power-of-two size >= 4 both networks compute
\* stages = log2(size/4) + 1 (7 for size 256, 1 for size 4); the Generator is
\* constructed with current_stage = 1, the Discriminator with
\* current_stage = stages.
C12_StagesFormula ==
    /\ size = 4 * Pow2(stages - 1)
    /\ current_stage = (IF cls = "Generator" THEN 1 ELSE stages)
    /\ (frame.op = "__init__" /\ frame.done) =>
          /\ frame.y.stages >= 1
          /\ frame.x.v = 4 * Pow2(frame.y.stages - 1)
          /\ frame.x.v = 256 => frame.y.stages = 7
          /\ frame.x.v = 4 => frame.y.stages = 1
          /\ frame.self.kind = "Generator" => frame.y.current_stage = 1
          /\ frame.self.kind = "Discriminator" => frame.y.current_stage = frame.y.stages

C12_Witness ==
    /\ frame.op = "__init__" /\ frame.done
    /\ frame.self.kind = "Discriminator"
    /\ frame.x.v = 256
    /\ frame.y.current_stage = 7

\* C13: Generator.forward reshapes a rank-2 input (N, nz) to (N, nz, 1, 1)
\* and passes it through the registry, passes a rank-4 input through the
\* registry unchanged, and fails its precondition on any other rank;
\* Discriminator.forward passes a rank-4 input through the registry and
\* fails its precondition on any other rank.
C13_ForwardRanks ==
    (frame.op = "forward" /\ frame.done) =>
        LET x == frame.x
            y == frame.y
        IN IF cls = "Generator"
           THEN /\ x.rank = 2 => y = Sequential_forward(model, [x EXCEPT !.rank = 4, !.H = 1])
                /\ x.rank = 4 => y = Sequential_forward(model, x)
                /\ x.rank \notin {2, 4} => y = Exc("AssertionError")
           ELSE /\ x.rank = 4 => y = Sequential_forward(model, x)
                /\ x.rank # 4 => y = Exc("AssertionError")

\* C14: MinibatchStddev.forward on (N, C, H, W) with G = min(group_size, N)
\* returns a tensor of shape (N, C+1, H, W) that carries x when G divides N,
\* and fails when G does not divide N.
C14_MinibatchStddevShape ==
    (frame.op = "MinibatchStddev.forward" /\ frame.done) =>
        LET x == frame.x
            y == frame.y
            G == IF group_size < x.N THEN group_size ELSE x.N
        IN IF x.N % G = 0
           THEN /\ y.kind = "tensor"
                /\ <<y.rank, y.N, y.C, y.H>> = <<4, x.N, x.C + 1, x.H>>
                /\ <<y.v, y.den>> = <<x.v, x.den>>
           ELSE y.kind = "exc"

\* C15: every successful grow_network leaves a registry in which a
\* ConcatTable named concat_block is immediately followed by a Fadein named
\* fadein whose alpha is 0, whatever the alpha of earlier transitions was.
C15_GrowStartsAtZero ==
    [][Succeeded("grow_network") =>
         \E i \in 1..(Len(model') - 1) :
            /\ model'[i].name = "concat_block"
            /\ model'[i].m.kind = "ConcatTable"
            /\ HasChild(model'[i].m.layer1, OldTerminal)
            /\ HasChild(model'[i].m.layer2, NewTerminal)
            /\ model'[i + 1].name = "fadein"
            /\ model'[i + 1].m.kind = "Fadein"
            /\ model'[i + 1].m.alpha = 0
            /\ \A j \in 1..Len(model') : j \notin {i, i + 1} => model'[j].m.kind # "Fadein"]_vars

\* the second transition of a network has begun
C15_Witness ==
    /\ ret.op = "grow_network" /\ ret.exc = "none"
    /\ Len(model) >= 4
    /\ \E i \in 1..Len(model) : model[i].name = "fadein" /\ model[i].m.alpha = 0

\* the registry entries that are neither concat_block nor fadein
KeptEntries(mdl) == SelectSeq(mdl, LAMBDA e : e.name \notin {"concat_block", "fadein"})

\* C16: in a transition flush_network succeeds whatever alpha is, leaves
\* current_stage as it is, and produces a registry made of the entries other
\* than fadein alone: the kept blocks and the new branch's two blocks.
C16_FlushIgnoresAlpha ==
    [][(Called("flush_network") /\ Transitioning) =>
         LET layer2 == Child(model, "concat_block").layer2
             stage == [name |-> "stage_" \o ToString(current_stage),
                       m |-> Child(layer2, "new_block")]
             terminal == [name |-> Terminal, m |-> Child(layer2, NewTerminal)]
         IN /\ Succeeded("flush_network")
            /\ current_stage' = current_stage
            /\ model' = IF IsG THEN KeptEntries(model) \o <<stage, terminal>>
                        ELSE <<terminal, stage>> \o KeptEntries(model)]_vars

\* a flush has ended a transition
C16_Witness ==
    /\ ret.op = "flush_network" /\ ret.exc = "none"
    /\ Stable
    /\ Len(model) >= 3

\* the tensor that reaches concat_block at stage k: the Generator's feature
\* map of stage k - 1, the Discriminator's image of stage k
ConcatInput(k) ==
    IF IsG THEN Tensor(4, 1, nf(k - 1), 4 * Pow2(k - 2), 1)
    ELSE Tensor(4, 1, nc, 4 * Pow2(stages - k), 1)

\* every block of seq takes the channels the block before it puts out
WidthsMatch(seq) ==
    \A i \in 1..(Len(seq) - 1) :
       (seq[i].m.cout # 0 /\ seq[i + 1].m.cin # 0) => seq[i].m.cout = seq[i + 1].m.cin

\* C18: in every transition the two branches of concat_block give tensors of
\* one shape for the same input, and the channel widths of consecutive blocks
\* match: the old terminal block takes nf(k-1) channels (Generator) or nc
\* channels (Discriminator), and the new branch ends with nc channels at twice
\* the size (Generator) or nf(8-(s+1)) channels at half the size
\* (Discriminator), k and s being current_stage.
C18_BranchShapes ==
    Transitioning =>
        LET k == current_stage
            old == Child(model, "concat_block").layer1
            new == Child(model, "concat_block").layer2
            x == ConcatInput(k)
            x0 == Sequential_forward(old, x)
            x1 == Sequential_forward(new, x)
        IN /\ x0.kind = "tensor" /\ x1.kind = "tensor"
           /\ <<x0.N, x0.C, x0.H>> = <<x1.N, x1.C, x1.H>>
           /\ WidthsMatch(old) /\ WidthsMatch(new)
           /\ IF IsG
              THEN /\ Child(old, "old_to_rgb").cin = nf(k - 1)
                   /\ <<x1.C, x1.H>> = <<nc, 2 * x.H>>
                   /\ \A i \in 1..Len(model) :
                         model[i].name = "stage_" \o ToString(k - 1) => model[i].m.cout = nf(k - 1)
              ELSE /\ Child(old, "old_from_rgb").cin = nc
                   /\ <<x1.C, x1.H>> = <<nf(8 - (k + 1)), x.H \div 2>>
                   /\ \A i \in 1..Len(model) :
                         model[i].name = "stage_" \o ToString(k + 1) => model[i].m.cin = nf(8 - (k + 1))

\* C19: for a latent input the Generator's forward returns nc channels of
\* spatial size 4 * 2^(current_stage - 1) in every state, which is the target
\* size once current_stage = stages; no grow_network succeeds beyond that.
C19_GeneratorOutputSize ==
    [][/\ (IsG /\ Called("forward")) =>
            \A x \in ValidInputs(current_stage) :
               LET y == G_forward(model, x)
               IN /\ y.kind = "tensor"
                  /\ <<y.rank, y.N, y.C, y.H>> = <<4, x.N, nc, 4 * Pow2(current_stage - 1)>>
                  /\ current_stage = stages => y.H = size
       /\ (IsG /\ Succeeded("grow_network")) => current_stage < stages]_vars

\* the registry without its last entry
ButLast(seq) == SubSeq(seq, 1, Len(seq) - 1)

\* C20: in the Discriminator an input of spatial size
\* 4 * 2^(stages - current_stage) reaches the last block, stage_<stages>, as a
\* 4x4 map of nf(8-stages) channels, and forward returns one scalar per
\* sample; at current_stage = 1 that input size is the target size.
C20_DiscriminatorReachesLastBlock ==
    [][(~IsG /\ Called("forward")) =>
         \A x \in ValidInputs(current_stage) :
            LET z == Sequential_forward(ButLast(model), x)
                y == D_forward(model, x)
            IN /\ model[Len(model)].name = "stage_" \o ToString(stages)
               /\ z.kind = "tensor"
               /\ <<z.N, z.C, z.H>> = <<x.N, nf(8 - stages), 4>>
               /\ y.kind = "tensor"
               /\ <<y.rank, y.N, y.C>> = <<2, x.N, 1>>
               /\ current_stage = 1 => x.H = size]_vars

\* C17: at every point of a grow_network or flush_network call the registry
\* is either the one the call began with, with the stage it began with, or
\* the one the call leaves, with the stage it leaves: never absent, never
\* half built, never at odds with current_stage.
C17_AtomicSwap ==
    (frame.kind = "frame") =>
        \/ model = frame.old /\ current_stage = frame.old_stage
        \/ /\ frame.r.exc = "none"
           /\ model = frame.r.model
           /\ current_stage = frame.r.current_stage

====
